---- MODULE Spec2Model ----
(***************************************************************************)
(* The type-checked curry engine of sanctuary (src/index.js, lines         *)
(* 105-206): placeholder, format, _is, arity, curry and def, together with *)
(* a few of the functions index.js defines through def.                    *)
(*                                                                         *)
(* JavaScript arrays are heap objects: a curried function closes over the  *)
(* array `_values`, and two functions may close over the same array        *)
(* (g() returns a function over g's own array).  The heap is modelled so   *)
(* that "the receiver is never mutated" is a checked fact.                 *)
(***************************************************************************)
EXTENDS Integers, Sequences, FiniteSets, TLC

(***************************************************************************)
(* Bounds of the exploration.                                              *)
(***************************************************************************)
MaxArgs == 3
MaxFns == 2

(***************************************************************************)
(* JavaScript values.  R__ is Ramda's placeholder R.__.                    *)
(***************************************************************************)
R__ == "R.__"
Null == "null"
Undefined == "undefined"
Num42 == "42"
Arr123 == "[1,2,3]"
ArrEmpty == "[]"
FnLength == "R.length"
LeftAbc == "Left('abc')"

Concrete == {Null, Undefined, Num42, Arr123, ArrEmpty, FnLength, LeftAbc}

\* the built-in constructors, which are values too (type representatives)
JsNumber == "Number"
JsObject == "Object"
JsString == "String"
JsArray == "Array"
JsFunction == "Function"

\* values of another execution context: vm.runInNewContext('Array') and
\* vm.runInNewContext('[1, 2, 3]')
VmArray == "vm:Array"
VmArr123 == "vm:[1,2,3]"

Constructors == {JsNumber, JsObject, JsString, JsArray, JsFunction, VmArray}

AllValues == Concrete \cup Constructors \cup {VmArr123}

\* the values and and or are explored with: Booleans, a Just and a Nothing
\* besides arrays, a Left, a number and null
True == "true"
False == "false"
Just42 == "Just(42)"
NothingV == "Nothing()"
JsBoolean == "Boolean"

ControlValues == {True, False, Arr123, ArrEmpty, Just42, NothingV, LeftAbc, Num42, Null}

\* `this` of a call: a plain call f(...) or a method call obj.f(...)
ThisVals == {Undefined, "obj"}

RECURSIVE Tabulate(_, _)
\* the array (a tuple) of the first n values of f
Tabulate(f, n) == IF n = 0 THEN <<>> ELSE Append(Tabulate(f, n - 1), f[n])

(***************************************************************************)
(* Ramda helpers used by the engine.                                       *)
(***************************************************************************)
\* R.type: the [[Class]] of a value
R_type(x) ==
  CASE x = Null -> "Null"
    [] x = Undefined -> "Undefined"
    [] x = Num42 -> "Number"
    [] x \in {Arr123, ArrEmpty, VmArr123} -> "Array"
    [] x \in {FnLength} \cup Constructors -> "Function"
    [] x \in {True, False} -> "Boolean"
    [] OTHER -> "Object"

\* R.toString
R_toString(x) ==
  CASE x = Arr123 -> "[1, 2, 3]"
    [] x = LeftAbc -> "Left(\"abc\")"
    [] x = FnLength -> "function length(list) {...}"
    [] OTHER -> x

\* x.type for a value that supports property access (Either.prototype.type)
\* and Maybe.prototype.type, lines 854 and 511
TypeProp(x) ==
  IF x = LeftAbc THEN "Either"
  ELSE IF x \in {Just42, NothingV} THEN "Maybe" ELSE Undefined

\* f.prototype, for a function f
Prototype(f) ==
  CASE f = JsNumber -> "Number.prototype"
    [] f = JsObject -> "Object.prototype"
    [] f = JsString -> "String.prototype"
    [] f = JsArray -> "Array.prototype"
    [] f = JsFunction -> "Function.prototype"
    [] f = JsBoolean -> "Boolean.prototype"
    [] f = "Either" -> "Either.prototype"
    [] f = VmArray -> "vm:Array.prototype"
    [] f = FnLength -> "R.length.prototype"
    [] OTHER -> Undefined

\* a faulty variant: a primitive is not promoted (it has no prototype
\* chain), as in R.is
ProtoOfUnpromoted(o) ==
  CASE o \in {Num42, True, False} -> Null
    [] o \in {Arr123, ArrEmpty} -> "Array.prototype"
    [] o \in {FnLength, JsNumber, JsObject, JsString, JsArray, JsFunction, "Either"}
         -> "Function.prototype"
    [] o = LeftAbc -> "Left.prototype"
    [] o = "Left.prototype" -> "Either.prototype"
    [] o = Just42 -> "Just.prototype"
    [] o = NothingV -> "Nothing.prototype"
    [] o \in {"Just.prototype", "Nothing.prototype"} -> "Maybe.prototype"
    [] o \in {"Number.prototype", "String.prototype", "Array.prototype",
              "Function.prototype", "Either.prototype", "Boolean.prototype",
              "Maybe.prototype"} -> "Object.prototype"
    [] o = VmArr123 -> "vm:Array.prototype"
    [] o = VmArray -> "vm:Function.prototype"
    [] o \in {"vm:Array.prototype", "vm:Function.prototype"} -> "vm:Object.prototype"
    [] OTHER -> Null

\* the [[Prototype]] of Object(o); each execution context has its own
\* built-in prototypes; Left.prototype inherits from Either.prototype
\* (extend, lines 208-215)
ProtoOf(o) ==
  CASE o = Num42 -> "Number.prototype"
    [] o \in {True, False} -> "Boolean.prototype"
    [] o \in {Arr123, ArrEmpty} -> "Array.prototype"
    [] o \in {FnLength, JsNumber, JsObject, JsString, JsArray, JsFunction, "Either"}
         -> "Function.prototype"
    [] o = LeftAbc -> "Left.prototype"
    [] o = "Left.prototype" -> "Either.prototype"
    [] o = Just42 -> "Just.prototype"
    [] o = NothingV -> "Nothing.prototype"
    [] o \in {"Just.prototype", "Nothing.prototype"} -> "Maybe.prototype"
    [] o \in {"Number.prototype", "String.prototype", "Array.prototype",
              "Function.prototype", "Either.prototype", "Boolean.prototype",
              "Maybe.prototype"} -> "Object.prototype"
    [] o = VmArr123 -> "vm:Array.prototype"
    [] o = VmArray -> "vm:Function.prototype"
    [] o \in {"vm:Array.prototype", "vm:Function.prototype"} -> "vm:Object.prototype"
    [] OTHER -> Null

RECURSIVE HasInChain(_, _)
\* instanceof: walk the chain of o until proto or the end (null)
HasInChain(o, proto) ==
  LET p == ProtoOf(o) IN p # Null /\ (p = proto \/ HasInChain(p, proto))

\* a faulty variant: every value is an instance of every constructor
InstanceOfAnything(x, type) == TRUE

\* Object(x) instanceof type, for a callable type: the prototype of the
\* type is looked for in the prototype chain of the promoted value
InstanceOf(x, type) == HasInChain(x, Prototype(type))

(***************************************************************************)
(* index.js                                                                *)
(***************************************************************************)
placeholder(x) == x = R__

\* the type objects that are functions (constructors); a, b, c are plain objects
Callable(type) ==
  type \in {"Either", "Accessible", "TypeRep", FnLength, JsBoolean} \cup Constructors

TypeVars == {"a", "b", "c"}

\* formatters['{ord}']
fmtOrd(pIdx) ==
  IF pIdx = <<>> THEN Undefined
  ELSE CASE pIdx[1] = 0 -> "first"
         [] pIdx[1] = 1 -> "second"
         [] pIdx[1] = 2 -> "third"
         [] OTHER -> Undefined

\* formatters['{type}']: the name in the source text of a function
fmtType(type) == IF Callable(type) THEN type ELSE Undefined

\* formatters['{quote}']
\* the quotation marks are U+2018 and U+2019
fmtQuote(s) == <<"U+2018", s, "U+2019">>

\* formatters['{repr}']
fmtRepr(x) == R_toString(x)

NoError == [thrown |-> FALSE]

\* an exception thrown by the JavaScript engine itself
NativeTypeError(what) ==
  [thrown |-> TRUE, ctor |-> "TypeError", tpl |-> "native", what |-> what]

\* format(template, values) wrapped in new TypeError
MismatchError(nm, type, pIdx, arg) ==
  [thrown |-> TRUE, ctor |-> "TypeError",
   tpl |-> "{quote} requires a value of type {type} as its {ord} argument; received {repr}",
   name |-> fmtQuote(nm), type |-> fmtType(type), ord |-> fmtOrd(pIdx),
   repr |-> fmtRepr(arg)]

NullishError(nm, pIdx) ==
  [thrown |-> TRUE, ctor |-> "TypeError",
   tpl |-> "The {ord} argument to {quote} cannot be null or undefined",
   name |-> fmtQuote(nm), ord |-> fmtOrd(pIdx)]

SameTypeError(nm, i, j, x, y) ==
  [thrown |-> TRUE, ctor |-> "TypeError",
   tpl |-> "{quote} requires its {ord} and {ord} arguments to be of the same type; {repr} and {repr} are not",
   name |-> fmtQuote(nm), ord |-> fmtOrd(<<i>>), ord2 |-> fmtOrd(<<j>>),
   repr |-> fmtRepr(x), repr2 |-> fmtRepr(y)]

\* _is(type, x): "true", "false", or "throws" when instanceof meets a
\* right-hand side that is not callable
_is(type, x) ==
  IF x \in {Null, Undefined} THEN "false"
  ELSE IF type = "Accessible" THEN "true"
  ELSE IF ~Callable(type) THEN "throws"
  ELSE IF InstanceOf(x, type) THEN "true" ELSE "false"

\* a faulty variant: an arity with a case for every n
arityAny(n) == [callable |-> TRUE, length |-> n]

\* arity(n, f): a function whose length is n, for n in 0..3 only
arity(n) == [callable |-> n \in 0..3, length |-> n]

\* a faulty variant: the count of the values that are not placeholders
CountProvided(values) == Cardinality({i \in 1..Len(values) : ~placeholder(values[i])})

\* R.filter(placeholder, values).length
CountPlaceholders(values) == Cardinality({i \in 1..Len(values) : placeholder(values[i])})

(***************************************************************************)
(* Functions index.js defines through def, by name.                        *)
(***************************************************************************)
DefNames == {"K", "and", "either", "Maybe.empty", "is", "at"}

\* def as a function of its constraint list: functions of every number of
\* parameters up to MaxTypes, each parameter an Accessible.  index.js
\* itself passes def at most three constraints.
MaxTypes == 4

ArityNames == <<"nullary", "unary", "binary", "ternary", "quaternary", "quinary",
                "senary">>

ArityOf(nm) == (CHOOSE i \in 1..Len(ArityNames) : ArityNames[i] = nm) - 1

\* the constraint list each def call passes
DefTypes(nm) ==
  CASE nm = "K" -> <<"a", "b">>
    [] nm = "and" -> <<"a", "a">>
    [] nm = "or" -> <<"a", "a">>
    [] nm = "either" -> <<"Function", "Function", "Either">>
    [] nm = "Maybe.empty" -> <<>>
    [] nm = "is" -> <<"TypeRep", "a">>
    [] nm = "at" -> <<"Number", "Accessible">>
    [] nm = "Just#reduce" -> <<"Function", "a">>
    [] OTHER -> Tabulate([i \in 1..ArityOf(nm) |-> "Accessible"], ArityOf(nm))

\* the values the exploration passes to each function
ArgPool(nm) ==
  CASE nm = "K" -> {Num42, Null}
    [] nm = "and" -> {Arr123, ArrEmpty, Null}
    [] nm = "or" -> {Arr123, Null, Undefined}
    [] nm = "either" -> {FnLength, LeftAbc}
    [] nm = "Maybe.empty" -> {Num42}
    [] nm = "is" -> {FnLength, Num42}
    [] nm = "at" -> {Num42, Undefined}
    [] nm = "Just#reduce" -> {FnLength, Num42}
    [] OTHER -> {Num42}

\* argument lists of a call: k values or placeholders, k up to MaxArgs
ArgLists(nm, k) == [1..k -> ArgPool(nm) \cup {R__}]

(***************************************************************************)
(* The heap of arrays.  R.update copies: it allocates a new array and      *)
(* leaves its argument alone.                                              *)
(***************************************************************************)
\* a faulty variant: an update that writes the first element of the copy
R_updateFirst(h, ref, idx, x) ==
  [h |-> Append(h, [h[ref] EXCEPT ![1] = x]), ref |-> Len(h) + 1]

\* a faulty variant: an update that writes into the array it is given
R_updateInPlace(h, ref, idx, x) ==
  [h |-> [h EXCEPT ![ref][idx + 1] = x], ref |-> ref]

\* R.update(idx, x, list), idx counted from 0; the result is a new array
R_update(h, ref, idx, x) ==
  [h |-> Append(h, [h[ref] EXCEPT ![idx + 1] = x]), ref |-> Len(h) + 1]

\* a faulty variant: nothing is rejected
R_rejectNothing(values) == values

\* R.reject(placeholder, values)
R_reject(values) == SelectSeq(values, LAMBDA v : ~placeholder(v))

\* a faulty variant: every index, whether its parameter was provided or not
paramIndexesAll(values, idx) ==
  Tabulate([i \in 1..(Len(values) - idx) |-> idx + i - 1], Len(values) - idx)

RECURSIVE paramIndexesFrom(_, _)
\* lines 154-159: the indexes (from 0) of the parameters yet to be provided
paramIndexesFrom(values, idx) ==
  IF idx >= Len(values) THEN <<>>
  ELSE IF placeholder(values[idx + 1])
       THEN <<idx>> \o paramIndexesFrom(values, idx + 1)
       ELSE paramIndexesFrom(values, idx + 1)

\* a faulty variant: the index read one place too far
AtNext(seq, i) == IF i + 1 < Len(seq) THEN <<seq[i + 2]>> ELSE <<>>

\* paramIndexes[argIndex]: <<i>>, or <<>> for undefined (past the end)
At(seq, i) == IF i < Len(seq) THEN <<seq[i + 1]>> ELSE <<>>

\* types[paramIndex]
TypeAt(types, pIdx) == IF pIdx = <<>> THEN Undefined ELSE types[pIdx[1] + 1]

RECURSIVE sameTypeScanNullSafe(_, _, _, _, _, _)
\* a faulty variant: the type property is not read from null or undefined
sameTypeScanNullSafe(nm, types, values, paramIndex, arg, idx) ==
  IF idx >= Len(values) THEN NoError
  ELSE LET val == values[idx + 1] IN
       IF types[idx + 1] = types[paramIndex + 1] /\ ~placeholder(val)
       THEN IF R_type(val) = R_type(arg)
            THEN IF val \in {Null, Undefined} \/ TypeProp(val) = TypeProp(arg)
                 THEN sameTypeScanNullSafe(nm, types, values, paramIndex, arg,
                                           idx + 1)
                 ELSE IF paramIndex > idx
                      THEN SameTypeError(nm, idx, paramIndex, val, arg)
                      ELSE SameTypeError(nm, paramIndex, idx, arg, val)
            ELSE IF paramIndex > idx
                 THEN SameTypeError(nm, idx, paramIndex, val, arg)
                 ELSE SameTypeError(nm, paramIndex, idx, arg, val)
       ELSE sameTypeScanNullSafe(nm, types, values, paramIndex, arg, idx + 1)

RECURSIVE sameTypeScanUnordered(_, _, _, _, _, _)
\* a faulty variant: the message always names the value already provided
\* first and the argument second
sameTypeScanUnordered(nm, types, values, paramIndex, arg, idx) ==
  IF idx >= Len(values) THEN NoError
  ELSE LET val == values[idx + 1] IN
       IF types[idx + 1] = types[paramIndex + 1] /\ ~placeholder(val)
       THEN IF R_type(val) = R_type(arg)
            THEN IF val \in {Null, Undefined}
                 THEN NativeTypeError("Cannot read property 'type'")
                 ELSE IF TypeProp(val) = TypeProp(arg)
                      THEN sameTypeScanUnordered(nm, types, values, paramIndex, arg,
                                                 idx + 1)
                      ELSE SameTypeError(nm, idx, paramIndex, val, arg)
            ELSE SameTypeError(nm, idx, paramIndex, val, arg)
       ELSE sameTypeScanUnordered(nm, types, values, paramIndex, arg, idx + 1)

RECURSIVE sameTypeScan(_, _, _, _, _, _)
\* lines 169-179: the scan of the values already provided for the same
\* type variable; reading val.type throws when val is null or undefined
sameTypeScan(nm, types, values, paramIndex, arg, idx) ==
  IF idx >= Len(values) THEN NoError
  ELSE LET val == values[idx + 1] IN
       IF types[idx + 1] = types[paramIndex + 1] /\ ~placeholder(val)
       THEN IF R_type(val) = R_type(arg)
            THEN IF val \in {Null, Undefined}
                 THEN NativeTypeError("Cannot read property 'type'")
                 ELSE IF TypeProp(val) = TypeProp(arg)
                      THEN sameTypeScan(nm, types, values, paramIndex, arg, idx + 1)
                      ELSE IF paramIndex > idx
                           THEN SameTypeError(nm, idx, paramIndex, val, arg)
                           ELSE SameTypeError(nm, paramIndex, idx, arg, val)
            ELSE IF paramIndex > idx
                 THEN SameTypeError(nm, idx, paramIndex, val, arg)
                 ELSE SameTypeError(nm, paramIndex, idx, arg, val)
       ELSE sameTypeScan(nm, types, values, paramIndex, arg, idx + 1)

\* a faulty variant: an argument is checked only by the call that leaves
\* no other parameter to provide
checkArgDeferred(nm, types, values, pIdx, arg) ==
  IF pIdx # <<>> /\ CountPlaceholders(values) > 1 THEN NoError
  ELSE LET type == TypeAt(types, pIdx) IN
       IF type \in TypeVars THEN sameTypeScan(nm, types, values, pIdx[1], arg, 0)
       ELSE IF type = "Accessible"
            THEN IF arg \in {Null, Undefined} THEN NullishError(nm, pIdx) ELSE NoError
            ELSE LET r == _is(IF type = "TypeRep" THEN "Function" ELSE type, arg) IN
                 IF r = "throws" THEN NativeTypeError("instanceof")
                 ELSE IF r = "false" THEN MismatchError(nm, type, pIdx, arg)
                 ELSE NoError

\* a faulty variant: the Accessible test is arg === null, which lets
\* undefined through
checkArgStrictNull(nm, types, values, pIdx, arg) ==
  LET type == TypeAt(types, pIdx) IN
  IF type \in TypeVars THEN sameTypeScan(nm, types, values, pIdx[1], arg, 0)
  ELSE IF type = "Accessible"
       THEN IF arg = Null THEN NullishError(nm, pIdx) ELSE NoError
       ELSE LET r == _is(IF type = "TypeRep" THEN "Function" ELSE type, arg) IN
            IF r = "throws" THEN NativeTypeError("instanceof")
            ELSE IF r = "false" THEN MismatchError(nm, type, pIdx, arg)
            ELSE NoError

\* lines 166-194: the check of one concrete argument against its parameter
checkArg(nm, types, values, pIdx, arg) ==
  LET type == TypeAt(types, pIdx) IN
  IF type \in TypeVars THEN sameTypeScan(nm, types, values, pIdx[1], arg, 0)
  ELSE IF type = "Accessible"
       THEN IF arg \in {Null, Undefined} THEN NullishError(nm, pIdx) ELSE NoError
       ELSE LET r == _is(IF type = "TypeRep" THEN "Function" ELSE type, arg) IN
            IF r = "throws" THEN NativeTypeError("instanceof")
            ELSE IF r = "false" THEN MismatchError(nm, type, pIdx, arg)
            ELSE NoError

RECURSIVE argLoopSkipping(_, _, _, _, _, _, _)
\* a faulty variant: a loop in which a placeholder argument consumes no parameter:
\* the N-th concrete argument goes to the N-th parameter yet to be provided
argLoopSkipping(nm, types, h, ref, paramIndexes, args, argIndex) ==
  IF argIndex >= Len(args) THEN [err |-> NoError, h |-> h, ref |-> ref]
  ELSE LET arg == args[argIndex + 1]
           pIdx == IF paramIndexes = <<>> THEN <<>> ELSE <<paramIndexes[1]>>
       IN IF placeholder(arg)
          THEN argLoopSkipping(nm, types, h, ref, paramIndexes, args, argIndex + 1)
          ELSE LET e == checkArg(nm, types, h[ref], pIdx, arg) IN
               IF e.thrown THEN [err |-> e, h |-> h, ref |-> ref]
               ELSE LET u == R_update(h, ref, pIdx[1], arg) IN
                    argLoopSkipping(nm, types, u.h, u.ref, Tail(paramIndexes),
                                    SubSeq(args, argIndex + 2, Len(args)), 0)

RECURSIVE argLoopLastError(_, _, _, _, _, _, _)
\* a faulty variant: a loop that checks every argument and throws the error of
\* the last one that fails
argLoopLastError(nm, types, h, ref, paramIndexes, args, argIndex) ==
  IF argIndex >= Len(args) THEN [err |-> NoError, h |-> h, ref |-> ref]
  ELSE LET arg == args[argIndex + 1]
           pIdx == At(paramIndexes, argIndex)
           rest == argLoopLastError(nm, types, h, ref, paramIndexes, args, argIndex + 1)
       IN IF placeholder(arg) THEN rest
          ELSE LET e == checkArg(nm, types, h[ref], pIdx, arg) IN
               IF e.thrown
               THEN IF rest.err.thrown THEN rest ELSE [err |-> e, h |-> h, ref |-> ref]
               ELSE LET u == R_update(h, ref, pIdx[1], arg) IN
                    argLoopLastError(nm, types, u.h, u.ref, paramIndexes, args,
                                     argIndex + 1)

RECURSIVE argLoopArgOrdinal(_, _, _, _, _, _, _)
\* a faulty variant: the error names the index of the argument in the call
argLoopArgOrdinal(nm, types, h, ref, paramIndexes, args, argIndex) ==
  IF argIndex >= Len(args) THEN [err |-> NoError, h |-> h, ref |-> ref]
  ELSE LET arg == args[argIndex + 1]
           pIdx == At(paramIndexes, argIndex)
       IN IF placeholder(arg)
          THEN argLoopArgOrdinal(nm, types, h, ref, paramIndexes, args, argIndex + 1)
          ELSE LET e == checkArg(nm, types, h[ref], pIdx, arg) IN
               IF e.thrown
               THEN [err |-> IF "ord2" \notin DOMAIN e /\ "ord" \in DOMAIN e
                             THEN [e EXCEPT !.ord = fmtOrd(<<argIndex>>)] ELSE e,
                     h |-> h, ref |-> ref]
               ELSE LET u == R_update(h, ref, pIdx[1], arg) IN
                    argLoopArgOrdinal(nm, types, u.h, u.ref, paramIndexes, args,
                                      argIndex + 1)

RECURSIVE argLoopIgnoringSurplus(_, _, _, _, _, _, _)
\* a faulty variant: an argument past the last parameter is ignored, be it
\* a placeholder or not
argLoopIgnoringSurplus(nm, types, h, ref, paramIndexes, args, argIndex) ==
  IF argIndex >= Len(args) THEN [err |-> NoError, h |-> h, ref |-> ref]
  ELSE LET arg == args[argIndex + 1]
           pIdx == At(paramIndexes, argIndex)
       IN IF placeholder(arg) \/ pIdx = <<>>
          THEN argLoopIgnoringSurplus(nm, types, h, ref, paramIndexes, args,
                                      argIndex + 1)
          ELSE LET e == checkArg(nm, types, h[ref], pIdx, arg) IN
               IF e.thrown THEN [err |-> e, h |-> h, ref |-> ref]
               ELSE LET u == R_update(h, ref, pIdx[1], arg) IN
                    argLoopIgnoringSurplus(nm, types, u.h, u.ref, paramIndexes,
                                           args, argIndex + 1)

RECURSIVE argLoop(_, _, _, _, _, _, _)
\* lines 161-196: the loop over the arguments of the call
argLoop(nm, types, h, ref, paramIndexes, args, argIndex) ==
  IF argIndex >= Len(args) THEN [err |-> NoError, h |-> h, ref |-> ref]
  ELSE LET arg == args[argIndex + 1]
           pIdx == At(paramIndexes, argIndex)
       IN IF placeholder(arg)
          THEN argLoop(nm, types, h, ref, paramIndexes, args, argIndex + 1)
          ELSE LET e == checkArg(nm, types, h[ref], pIdx, arg) IN
               IF e.thrown THEN [err |-> e, h |-> h, ref |-> ref]
               ELSE LET u == R_update(h, ref, pIdx[1], arg) IN
                    argLoop(nm, types, u.h, u.ref, paramIndexes, args, argIndex + 1)

\* a faulty variant: the implementation is applied with the object the
\* method was reached through first, retained along the chain
ApplyRetainedThis(nm, this, args) == [impl |-> nm, this |-> "obj", args |-> args]

\* a faulty variant: the implementation is applied without the receiver
ApplyNoThis(nm, this, args) == [impl |-> nm, this |-> Undefined, args |-> args]

\* f.apply(this, args): what the implementation is given
Apply(nm, this, args) == [impl |-> nm, this |-> this, args |-> args]

\* a faulty variant: a function that reports the declared arity
curryDeclared(nm, types, h, ref) == [vals |-> ref] @@ arity(Len(types))

\* line 148: curry(name, types, _values, f) is a function of the arity
\* counted from _values, closed over the array _values
curry(nm, types, h, ref) ==
  [vals |-> ref] @@ arity(CountPlaceholders(h[ref]))

\* a faulty variant: saturation is decided by the number of arguments of
\* the call (arguments.length === values.length)
curriedByArgCount(nm, types, h, ref, args, this) ==
  LET loop == argLoop(nm, types, h, ref, paramIndexesFrom(h[ref], 0), args, 0) IN
  IF loop.err.thrown
  THEN [kind |-> "throw", err |-> loop.err, invoked |-> 0, h |-> loop.h]
  ELSE LET values == loop.h[loop.ref]
           fargs == R_reject(values)
       IN IF Len(args) = Len(values)
          THEN [kind |-> "return", value |-> Apply(nm, this, fargs),
                invoked |-> 1, h |-> loop.h]
          ELSE [kind |-> "function", fn |-> curry(nm, types, loop.h, loop.ref),
                values |-> values, invoked |-> 0, h |-> loop.h]

\* lines 148-201: a call of the function curry returned, with `args` as
\* its arguments object
curried(nm, types, h, ref, args, this) ==
  LET loop == argLoop(nm, types, h, ref, paramIndexesFrom(h[ref], 0), args, 0) IN
  IF loop.err.thrown
  THEN [kind |-> "throw", err |-> loop.err, invoked |-> 0, h |-> loop.h]
  ELSE LET values == loop.h[loop.ref]
           fargs == R_reject(values)
       IN IF Len(fargs) = Len(values)
          THEN [kind |-> "return", value |-> Apply(nm, this, fargs),
                invoked |-> 1, h |-> loop.h]
          ELSE [kind |-> "function", fn |-> curry(nm, types, loop.h, loop.ref),
                values |-> values, invoked |-> 0, h |-> loop.h]

\* lines 204-206: def starts from an array of placeholders
def(nm, types) ==
  LET h == << Tabulate([i \in 1..Len(types) |-> R__], Len(types)) >> IN
  [h |-> h, fn |-> curry(nm, types, h, 1)]

(***************************************************************************)
(* The state.                                                              *)
(*   name     the function under exploration (one of DefNames)            *)
(*   heap     the arrays that live functions close over                    *)
(*   fns      the live functions; fns[1] is the one def returned           *)
(*   last     the call the engine handled most recently, with its outcome, *)
(*            until the caller has taken the outcome                       *)
(*   running  whether an implementation is on the call stack; a call made  *)
(*            while it is comes from inside an implementation (re-entrant) *)
(*   chain    history variable: for each live function, the slots as the   *)
(*            calls of its own application chain leave them                *)
(***************************************************************************)
VARIABLES name, heap, fns, last, running, chain

vars == <<name, heap, fns, last, running, chain>>

NoCall == [recv |-> 0, args |-> <<>>, this |-> Undefined, out |-> [kind |-> "none"]]

\* positions (from 1) of the unfilled slots, in ascending order
Unfilled(values) ==
  LET RECURSIVE from(_)
      from(i) == IF i > Len(values) THEN <<>>
                 ELSE IF values[i] = R__ THEN <<i>> \o from(i + 1)
                 ELSE from(i + 1)
  IN from(1)

\* The slots after a call, as the placeholder rule states them: the k-th
\* argument goes with the k-th unfilled slot; a placeholder leaves it unfilled.
Fill(values, args) ==
  LET RECURSIVE from(_, _)
      \* slot i onwards, k - 1 unfilled slots having been met
      from(i, k) ==
        IF i > Len(values) THEN <<>>
        ELSE IF values[i] = R__
             THEN <<IF k <= Len(args) THEN args[k] ELSE R__>> \o from(i + 1, k + 1)
             ELSE <<values[i]>> \o from(i + 1, k)
  IN from(1, 1)

Init ==
  /\ name \in DefNames
  /\ heap = def(name, DefTypes(name)).h
  /\ fns = << def(name, DefTypes(name)).fn >>
  /\ last = NoCall
  /\ running = FALSE
  /\ chain = << Tabulate([i \in 1..Len(DefTypes(name)) |-> R__], Len(DefTypes(name))) >>

\* what the caller sees of a call: the outcome without the heap
Outcome(res, before) ==
  IF res.kind = "throw" THEN [kind |-> "throw", err |-> res.err, invoked |-> 0]
  ELSE IF res.kind = "return"
       THEN [kind |-> "return", value |-> res.value, invoked |-> res.invoked]
       ELSE [kind |-> "function", fn |-> res.fn, values |-> res.values,
             shared |-> res.fn.vals <= before, invoked |-> res.invoked]

\* fns[r] is called with the arguments args and the receiver this
Call(r, args, this) ==
  /\ last = NoCall
  /\ fns[r].callable
  /\ LET res == curried(name, DefTypes(name), heap, fns[r].vals, args, this) IN
       /\ running' = (running \/ res.invoked = 1)
       /\ heap' = SubSeq(res.h, 1, Len(heap))
       /\ last' = [recv |-> r, args |-> args, this |-> this,
                   out |-> Outcome(res, Len(heap))]
  /\ UNCHANGED <<name, fns, chain>>

\* the caller keeps the function the call returned
Keep ==
  /\ last.out.kind = "function"
  /\ Len(fns) < MaxFns
  /\ IF last.out.shared
     THEN /\ heap' = heap
          /\ fns' = Append(fns, last.out.fn)
     ELSE /\ heap' = Append(heap, last.out.values)
          /\ fns' = Append(fns, [last.out.fn EXCEPT !.vals = Len(heap) + 1])
  /\ chain' = Append(chain, Fill(chain[last.recv], last.args))
  /\ last' = NoCall
  /\ UNCHANGED <<name, running>>

\* the caller takes the outcome and keeps nothing of it
Drop ==
  /\ last # NoCall
  /\ last' = NoCall
  /\ UNCHANGED <<name, heap, fns, running, chain>>

Remove(seq, i) == SubSeq(seq, 1, i - 1) \o SubSeq(seq, i + 1, Len(seq))

\* the arrays still referenced, in order, and the references renumbered
LiveRefs(fs) == {fs[i].vals : i \in 1..Len(fs)}
Renumber(fs, ref) == Cardinality({q \in LiveRefs(fs) : q <= ref})

\* the caller lets go of a function it kept; an array no function closes
\* over any more is collected
Release(i) ==
  /\ last = NoCall
  /\ i > 1
  /\ LET fs == Remove(fns, i)
         live == LiveRefs(fs)
     IN /\ fns' = Tabulate([j \in 1..Len(fs) |->
                               [fs[j] EXCEPT !.vals = Renumber(fs, fs[j].vals)]],
                            Len(fs))
        /\ heap' = Tabulate([k \in 1..Cardinality(live) |->
                                heap[CHOOSE q \in live : Renumber(fs, q) = k]],
                             Cardinality(live))
  /\ chain' = Remove(chain, i)
  /\ UNCHANGED <<name, last, running>>

\* the implementations on the call stack return
Return ==
  /\ last = NoCall
  /\ running
  /\ running' = FALSE
  /\ UNCHANGED <<name, heap, fns, last, chain>>

\* the functions of DefNames are called as plain functions, none of their
\* bodies reads this; MethodSpec below varies the this of a call
Next ==
  \/ /\ last = NoCall
     /\ \E r \in 1..Len(fns), k \in 0..MaxArgs :
          \E args \in ArgLists(name, k) : Call(r, args, Undefined)
  \/ Keep
  \/ Drop
  \/ /\ last = NoCall
     /\ \E i \in 1..Len(fns) : Release(i)
  \/ Return

Spec == Init /\ [][Next]_vars

(***************************************************************************)
(* The engine with type checking disabled, as the specification describes  *)
(* it: it pairs arguments with slots and saturates as the checking engine  *)
(* does, and skips the validation of the arguments.                        *)
(***************************************************************************)
unchecked(nm, values, args, this) ==
  LET after == Fill(values, args) IN
  IF Unfilled(after) = <<>>
  THEN [kind |-> "return", value |-> [impl |-> nm, this |-> this, args |-> after]]
  ELSE [kind |-> "function", values |-> after, length |-> Len(Unfilled(after))]

(***************************************************************************)
(* Single calls of is and at with arguments of every kind: built-in        *)
(* constructors and values of another execution context included.         *)
(***************************************************************************)
\* line 258: the implementation of is is _is itself
isResult(app) == _is(app.args[1], app.args[2])

WideNames == {"is", "at"}

\* plain calls S.is(...), S.at(...): this is undefined
WideArgLists(k) == [1..k -> (AllValues \ {ArrEmpty}) \cup {R__}]

WideInit ==
  /\ name \in WideNames
  /\ heap = def(name, DefTypes(name)).h
  /\ fns = << def(name, DefTypes(name)).fn >>
  /\ last = NoCall
  /\ running = FALSE
  /\ chain = << Tabulate([i \in 1..Len(DefTypes(name)) |-> R__], Len(DefTypes(name))) >>

WideNext ==
  \/ /\ last = NoCall
     /\ \E k \in 0..MaxArgs :
          \E args \in WideArgLists(k) : Call(1, args, Undefined)
  \/ Drop
  \/ Return

WideSpec == WideInit /\ [][WideNext]_vars

(***************************************************************************)
(* A method defined through def: Just.prototype.reduce, used on the Just   *)
(* m = "obj".  The method itself is reached through m (m.reduce(...)); a   *)
(* function an earlier call returned is either applied as a plain function *)
(* (this is undefined: the file is in strict mode) or with m as receiver.  *)
(***************************************************************************)
\* m.value, for m = Just(42)
ValueOf(this) == Num42

\* lines 608-610: function(f, z) { return f(z, this.value); }
reduceResult(app) ==
  IF app.this \in {Null, Undefined}
  THEN NativeTypeError("Cannot read property 'value'")
  ELSE [thrown |-> FALSE, fn |-> app.args[1],
        args |-> <<app.args[2], ValueOf(app.this)>>]

MethodNames == {"Just#reduce"}

MethodInit ==
  /\ name \in MethodNames
  /\ heap = def(name, DefTypes(name)).h
  /\ fns = << def(name, DefTypes(name)).fn >>
  /\ last = NoCall
  /\ running = FALSE
  /\ chain = << Tabulate([i \in 1..Len(DefTypes(name)) |-> R__], Len(DefTypes(name))) >>

MethodNext ==
  \/ /\ last = NoCall
     /\ \E k \in 0..MaxArgs :
          \E args \in ArgLists(name, k) : Call(1, args, "obj")
  \/ /\ last = NoCall
     /\ \E r \in 2..Len(fns), k \in 0..MaxArgs, this \in ThisVals :
          \E args \in ArgLists(name, k) : Call(r, args, this)
  \/ Keep
  \/ Drop
  \/ /\ last = NoCall
     /\ \E i \in 1..Len(fns) : Release(i)
  \/ Return

MethodSpec == MethodInit /\ [][MethodNext]_vars

(***************************************************************************)
(* The list functions slice, at, take, takeLast, drop and dropLast (lines  *)
(* 1085-1281).  Their arguments here are numbers and arrays, which conform *)
(* to the constraints Number and Accessible, so that the engine hands them *)
(* to the implementations as they are.                                     *)
(*                                                                         *)
(* A JavaScript number is an integer v, or the zero that carries a minus   *)
(* sign (-0), which equals 0 under < and Math.abs and differs from it      *)
(* under R.equals.  An array is a tuple.                                   *)
(***************************************************************************)
MaxLen == 3

Num(i) == [v |-> i, minus |-> FALSE]
NegZero == [v |-> 0, minus |-> TRUE]

\* unary minus: -0 for 0, 0 for -0
Negate(n) == IF n.v = 0 THEN [v |-> 0, minus |-> ~n.minus] ELSE Num(0 - n.v)

\* n + i for an i that is not -0: the sum is never -0
Plus(n, i) == Num(n.v + i)

Abs(i) == IF i < 0 THEN 0 - i ELSE i

Min(i, j) == IF i <= j THEN i ELSE j

Max(i, j) == IF i >= j THEN i ELSE j

\* lines 223-225: R.equals tells -0 from 0
negativeZero(n) == n.minus

Nothing == [maybe |-> "Nothing"]

Just(x) == [maybe |-> "Just", value |-> x]

\* R.slice delegates to Array.prototype.slice: a negative index counts from
\* the end, and both indexes are clamped to 0 .. length
R_slice(fromIdx, toIdx, xs) ==
  LET len == Len(xs)
      k == IF fromIdx < 0 THEN Max(len + fromIdx, 0) ELSE Min(fromIdx, len)
      final == IF toIdx < 0 THEN Max(len + toIdx, 0) ELSE Min(toIdx, len)
  IN SubSeq(xs, k + 1, final)

\* R.head: the first element, undefined for an empty array
R_head(xs) == IF xs = <<>> THEN Undefined ELSE xs[1]

\* R.map(R.head, maybe): Just#map applies the function to the value
mapHead(m) == IF m.maybe = "Just" THEN Just(R_head(m.value)) ELSE Nothing

\* a faulty variant: a slice that leaves out of range indexes to R.slice
sliceClamped(start, end, xs) ==
  LET len == Len(xs)
      startIdx == IF negativeZero(start) THEN len
                  ELSE IF start.v < 0 THEN start.v + len ELSE start.v
      endIdx == IF negativeZero(end) THEN len
                ELSE IF end.v < 0 THEN end.v + len ELSE end.v
  IN IF startIdx <= endIdx THEN Just(R_slice(startIdx, endIdx, xs)) ELSE Nothing

\* lines 1085-1094
slice(start, end, xs) ==
  LET len == Len(xs)
      startIdx == IF negativeZero(start) THEN len
                  ELSE IF start.v < 0 THEN start.v + len ELSE start.v
      endIdx == IF negativeZero(end) THEN len
                ELSE IF end.v < 0 THEN end.v + len ELSE end.v
  IN IF Abs(start.v) <= len /\ Abs(end.v) <= len /\ startIdx <= endIdx
     THEN Just(R_slice(startIdx, endIdx, xs))
     ELSE Nothing

\* lines 1137-1139
at(n, xs) == mapHead(slice(n, IF n = Num(-1) THEN NegZero ELSE Plus(n, 1), xs))

\* a faulty variant: a take that accepts -0 as 0
takeUnsigned(n, xs) == IF n.v < 0 THEN Nothing ELSE slice(Num(0), n, xs)

\* lines 1216-1218
take(n, xs) ==
  IF n.v < 0 \/ negativeZero(n) THEN Nothing ELSE slice(Num(0), n, xs)

\* lines 1237-1239
takeLast(n, xs) ==
  IF n.v < 0 \/ negativeZero(n) THEN Nothing ELSE slice(Negate(n), NegZero, xs)

\* lines 1258-1260
drop(n, xs) ==
  IF n.v < 0 \/ negativeZero(n) THEN Nothing ELSE slice(n, NegZero, xs)

\* lines 1279-1281
dropLast(n, xs) ==
  IF n.v < 0 \/ negativeZero(n) THEN Nothing ELSE slice(Num(0), Negate(n), xs)

ListNames == {"slice", "at", "take", "takeLast", "drop", "dropLast"}

\* the indexes of a call: every integer up to one past the longest array,
\* on both sides of zero, and -0
Numbers == {Num(i) : i \in (0 - (MaxLen + 1))..(MaxLen + 1)} \cup {NegZero}

\* the arrays ["1"], ["1", "2"], ... of every length up to MaxLen
Lists == {Tabulate([i \in 1..len |-> ToString(i)], len) : len \in 0..MaxLen}

ListArgs(nm) ==
  IF nm = "slice" THEN Numbers \X Numbers \X Lists ELSE Numbers \X Lists

listResult(nm, args) ==
  CASE nm = "slice" -> slice(args[1], args[2], args[3])
    [] nm = "at" -> at(args[1], args[2])
    [] nm = "take" -> take(args[1], args[2])
    [] nm = "takeLast" -> takeLast(args[1], args[2])
    [] nm = "drop" -> drop(args[1], args[2])
    [] nm = "dropLast" -> dropLast(args[1], args[2])

ListInit ==
  /\ name \in ListNames
  /\ heap = <<>>
  /\ fns = <<>>
  /\ last = NoCall
  /\ running = FALSE
  /\ chain = <<>>

\* one saturating call S.slice(start, end, xs), S.at(n, xs), ...
Invoke(args) ==
  /\ last = NoCall
  /\ last' = [recv |-> 1, args |-> args, this |-> Undefined,
              out |-> [kind |-> "return", value |-> listResult(name, args),
                       invoked |-> 1]]
  /\ UNCHANGED <<name, heap, fns, running, chain>>

ListNext ==
  \/ \E args \in ListArgs(name) : Invoke(args)
  \/ Drop

ListSpec == ListInit /\ [][ListNext]_vars

(***************************************************************************)
(* and and or (lines 977-1030), called with values of every kind: calls    *)
(* of the function def returned, which reach the implementation when the   *)
(* engine accepts the arguments.                                           *)
(***************************************************************************)
\* methodMissing, line 977, wrapped in new TypeError
MethodMissingError(x, article, method) ==
  [thrown |-> TRUE, ctor |-> "TypeError",
   tpl |-> "{repr} does not have {} {quote} method",
   repr |-> fmtRepr(x), article |-> article, method |-> fmtQuote(method)]

\* xs.length
LengthOf(x) == IF x = Arr123 THEN 3 ELSE 0

\* x.toBoolean, for a value that supports property access: the methods of
\* lines 552, 613 and 897; undefined where there is none
toBooleanOf(x) ==
  CASE x = Just42 -> "Just#toBoolean"
    [] x = NothingV -> "Nothing#toBoolean"
    [] x = LeftAbc -> "Left#toBoolean"
    [] OTHER -> Undefined

\* x.toBoolean(): R.always(true) for a Just, R.always(false) for the others
callToBoolean(x) == IF x = Just42 THEN True ELSE False

\* the truth of a value in a conditional
Truthy(v) == v \notin {False, Null, Undefined}

\* lines 980-985; is(Function, x.toBoolean) is false for undefined and true
\* for a method, and reading x.toBoolean throws when x is null or undefined
toBoolean(x) ==
  IF _is(JsArray, x) = "true"
  THEN [thrown |-> FALSE, value |-> IF LengthOf(x) > 0 THEN True ELSE False]
  ELSE IF _is(JsBoolean, x) = "true" THEN [thrown |-> FALSE, value |-> x]
  ELSE IF x \in {Null, Undefined}
  THEN NativeTypeError("Cannot read property 'toBoolean'")
  ELSE IF toBooleanOf(x) # Undefined
  THEN [thrown |-> FALSE, value |-> callToBoolean(x)]
  ELSE MethodMissingError(x, "a", "toBoolean")

\* lines 1010-1012: function(x, y) { return toBoolean(x) ? y : x; }
andResult(app) ==
  LET x == app.args[1]
      y == app.args[2]
      b == toBoolean(x)
  IN IF b.thrown THEN b
     ELSE [thrown |-> FALSE, value |-> IF Truthy(b.value) THEN y ELSE x]

\* lines 1028-1030: function(x, y) { return toBoolean(x) ? x : y; }
orResult(app) ==
  LET x == app.args[1]
      y == app.args[2]
      b == toBoolean(x)
  IN IF b.thrown THEN b
     ELSE [thrown |-> FALSE, value |-> IF Truthy(b.value) THEN x ELSE y]

ControlNames == {"and", "or"}

\* plain calls S.and(...), S.or(...): this is undefined
ControlArgLists(k) == [1..k -> ControlValues \cup {R__}]

ControlInit ==
  /\ name \in ControlNames
  /\ heap = def(name, DefTypes(name)).h
  /\ fns = << def(name, DefTypes(name)).fn >>
  /\ last = NoCall
  /\ running = FALSE
  /\ chain = << Tabulate([i \in 1..Len(DefTypes(name)) |-> R__], Len(DefTypes(name))) >>

ControlNext ==
  \/ /\ last = NoCall
     /\ \E k \in 0..MaxArgs :
          \E args \in ControlArgLists(k) : Call(1, args, Undefined)
  \/ Drop
  \/ Return

ControlSpec == ControlInit /\ [][ControlNext]_vars

(***************************************************************************)
(* Chains of calls on the functions that between them throw in each of the *)
(* engine's ways: a type variable violation (and), a type mismatch         *)
(* (either), a null or undefined Accessible (at), and an argument past the *)
(* last parameter (each of them, and K).                                   *)
(***************************************************************************)
SlotNames == {"K", "and", "either", "at"}

SlotInit ==
  /\ name \in SlotNames
  /\ heap = def(name, DefTypes(name)).h
  /\ fns = << def(name, DefTypes(name)).fn >>
  /\ last = NoCall
  /\ running = FALSE
  /\ chain = << Tabulate([i \in 1..Len(DefTypes(name)) |-> R__], Len(DefTypes(name))) >>

SlotNext ==
  \/ /\ last = NoCall
     /\ \E r \in 1..Len(fns), k \in 0..MaxArgs :
          \E args \in ArgLists(name, k) : Call(r, args, Undefined)
  \/ Keep
  \/ Drop
  \/ /\ last = NoCall
     /\ \E i \in 1..Len(fns) : Release(i)
  \/ Return

SlotSpec == SlotInit /\ [][SlotNext]_vars

(***************************************************************************)
(* Chains of calls on or, whose two constraints are one type variable,     *)
(* with null and undefined among the arguments.                            *)
(***************************************************************************)
TypeVarNames == {"or"}

TypeVarInit ==
  /\ name \in TypeVarNames
  /\ heap = def(name, DefTypes(name)).h
  /\ fns = << def(name, DefTypes(name)).fn >>
  /\ last = NoCall
  /\ running = FALSE
  /\ chain = << Tabulate([i \in 1..Len(DefTypes(name)) |-> R__], Len(DefTypes(name))) >>

TypeVarNext ==
  \/ /\ last = NoCall
     /\ \E r \in 1..Len(fns), k \in 0..MaxArgs :
          \E args \in ArgLists(name, k) : Call(r, args, Undefined)
  \/ Keep
  \/ Drop
  \/ /\ last = NoCall
     /\ \E i \in 1..Len(fns) : Release(i)
  \/ Return

TypeVarSpec == TypeVarInit /\ [][TypeVarNext]_vars

(***************************************************************************)
(* def for every number of constraints up to MaxTypes, and chains of calls *)
(* on what it returns.  arity has no case for four or more: what it        *)
(* returns then is undefined (a record that is not callable), and calling  *)
(* it throws.                                                              *)
(***************************************************************************)
ArityInit ==
  /\ name \in {ArityNames[n + 1] : n \in 0..MaxTypes}
  /\ heap = def(name, DefTypes(name)).h
  /\ fns = << def(name, DefTypes(name)).fn >>
  /\ last = NoCall
  /\ running = FALSE
  /\ chain = << Tabulate([i \in 1..Len(DefTypes(name)) |-> R__], Len(DefTypes(name))) >>

\* a call of the undefined that def returned
CallUndefined(r, args, this) ==
  /\ last = NoCall
  /\ ~fns[r].callable
  /\ last' = [recv |-> r, args |-> args, this |-> this,
              out |-> [kind |-> "throw", invoked |-> 0,
                       err |-> NativeTypeError("undefined is not a function")]]
  /\ UNCHANGED <<name, heap, fns, running, chain>>

ArityNext ==
  \/ /\ last = NoCall
     /\ \E r \in 1..Len(fns), k \in 0..MaxArgs :
          \E args \in ArgLists(name, k) : Call(r, args, Undefined)
  \/ /\ last = NoCall
     /\ \E r \in 1..Len(fns), k \in 0..MaxArgs :
          \E args \in ArgLists(name, k) : CallUndefined(r, args, Undefined)
  \/ Keep
  \/ Drop
  \/ /\ last = NoCall
     /\ \E i \in 1..Len(fns) : Release(i)
  \/ Return

AritySpec == ArityInit /\ [][ArityNext]_vars

(***************************************************************************)
(* Vocabulary of the properties.  None of it is used by the actions,       *)
(* except Fill, which records the history variable chain.                  *)
(***************************************************************************)
Called == last # NoCall

\* the receiver's slots, as its own application chain left them
RecvSlots == chain[last.recv]

Types == DefTypes(name)

NumConcrete(seq) == Cardinality({i \in 1..Len(seq) : seq[i] # R__})

\* the slots a call that did not throw ends with
SlotsAfter ==
  IF last.out.kind = "function" THEN last.out.values ELSE last.out.value.args

\* the arguments of the call past the receiver's unfilled slots
Surplus == {k \in 1..Len(last.args) : k > Len(Unfilled(RecvSlots))}

\* one call of the function def returned, with all of vs at once
FullCall(vs, this) == curried(name, Types, def(name, Types).h, 1, vs, this)

\* C1: associativity of partial application.  Whenever the arguments a
\* chain of grouped calls has supplied (placeholders included) complete the
\* slots, and the single call of the def'd function with those same values
\* succeeds, the last call of the chain returns what that single call returns.
C1_Associativity ==
  Called =>
    LET all == Fill(RecvSlots, last.args) IN
    (/\ \A k \in Surplus : last.args[k] = R__
     /\ NumConcrete(all) = Len(all)
     /\ FullCall(all, last.this).kind = "return")
    => /\ last.out.kind = "return"
       /\ last.out.value = FullCall(all, last.this).value

\* either(f)(x, y) style: the last call of a chain that began with a
\* placeholder call saturates a three-slot function with two arguments
C1_Witness ==
  /\ Called
  /\ name = "either"
  /\ last.recv > 1
  /\ RecvSlots = <<R__, FnLength, R__>>
  /\ last.args = <<FnLength, LeftAbc>>
  /\ FullCall(<<FnLength, FnLength, LeftAbc>>, last.this).kind = "return"
  /\ last.out.kind = "return"

\* C2: non-interference of branches.  Every live function's array holds
\* exactly what its own chain of calls supplied, whatever was applied to
\* the other functions in the meantime, inside an implementation or not;
\* and the outcome of a call is the outcome of the same call made on a
\* function that has seen its receiver's chain alone.
C2_NonInterference ==
  /\ \A i \in 1..Len(fns) : heap[fns[i].vals] = chain[i]
  /\ Called =>
       LET alone == curried(name, Types, <<RecvSlots>>, 1, last.args, last.this) IN
       /\ last.out.kind = alone.kind
       /\ last.out.kind = "throw" => last.out.err = alone.err
       /\ last.out.kind = "return" => last.out.value = alone.value
       /\ last.out.kind = "function" =>
            /\ last.out.values = alone.values
            /\ last.out.fn.length = alone.fn.length

\* g = K(42) is kept; then, from inside an implementation, K is called with
\* null in the slot g filled: the result carries null, not g's 42
C2_Witness ==
  /\ Called
  /\ name = "K"
  /\ running
  /\ Len(fns) = 2
  /\ chain[2] = <<Num42, R__>>
  /\ last.recv = 1
  /\ last.args = <<Null, Num42>>
  /\ last.out.kind = "return"
  /\ last.out.value.args = <<Null, Num42>>

\* C3: positional placeholder semantics.  The k-th argument of a call,
\* placeholders counted, goes with the k-th unfilled slot of the receiver:
\* a concrete argument fills that slot, a placeholder leaves it unfilled,
\* and the slots no argument goes with keep what they held.
C3_Positional ==
  (Called /\ last.out.kind # "throw") =>
    LET U == Unfilled(RecvSlots) IN
    /\ \A k \in 1..Len(last.args) : k <= Len(U) => SlotsAfter[U[k]] = last.args[k]
    /\ \A i \in 1..Len(RecvSlots) :
         (\A k \in 1..Len(last.args) : k <= Len(U) => U[k] # i)
           => SlotsAfter[i] = RecvSlots[i]

\* either(_, g, x)(f) invokes the implementation with (f, g, x)
C3_Witness ==
  /\ Called
  /\ name = "either"
  /\ RecvSlots = <<R__, FnLength, LeftAbc>>
  /\ last.args = <<FnLength>>
  /\ last.out.kind = "return"
  /\ last.out.value.args = <<FnLength, FnLength, LeftAbc>>

\* C4 as stated: the N-th non-placeholder argument of a call fills the
\* N-th unfilled slot of the receiver.
C4_AsStated ==
  (Called /\ last.out.kind # "throw") =>
    LET U == Unfilled(RecvSlots)
        given == R_reject(last.args)
    IN \A n \in 1..Len(given) : n <= Len(U) => SlotsAfter[U[n]] = given[n]

\* C4, amended: the N-th non-placeholder argument of a call, with p
\* placeholders before it in the argument list, fills the (N+p)-th unfilled
\* slot of the receiver; it fills the N-th only when no placeholder precedes it.
C4_CountingPlaceholders ==
  (Called /\ last.out.kind # "throw") =>
    LET U == Unfilled(RecvSlots) IN
    \A j \in 1..Len(last.args) :
      LET n == Cardinality({i \in 1..j : last.args[i] # R__})
          p == Cardinality({i \in 1..(j - 1) : last.args[i] = R__})
      IN (last.args[j] # R__ /\ n + p <= Len(U)) => SlotsAfter[U[n + p]] = last.args[j]

\* K(_, 42): the first concrete argument fills the second slot
C4_Witness ==
  /\ Called
  /\ name = "K"
  /\ last.recv = 1
  /\ last.args = <<R__, Num42>>
  /\ last.out.kind = "function"
  /\ last.out.values = <<R__, Num42>>

\* the function def returned is called with no argument, or with one placeholder
EmptyCall == Called /\ last.recv = 1 /\ last.args \in {<<>>, <<R__>>}

\* such a call returns a function of the declared arity that holds what
\* the receiver holds
SameAsReceiver ==
  /\ last.out.kind = "function"
  /\ last.out.fn.callable
  /\ last.out.fn.length = Len(Types)
  /\ last.out.values = RecvSlots
  /\ last.out.invoked = 0

\* C5 as stated: for every function def produces, f() and f(R.__) return
\* a function of the declared arity that behaves like f.
C5_AsStated == EmptyCall => SameAsReceiver

\* C5, amended: for every function def produces with a declared arity
\* between 1 and 3, f() and f(R.__) return a function (not the
\* implementation's result) of the declared arity that behaves like f; a
\* function declared with no parameter is saturated from the start, and
\* f() returns what its implementation returns.
C5_ArityPreservation ==
  /\ (EmptyCall /\ Len(Types) \in 1..3) => SameAsReceiver
  /\ (EmptyCall /\ Len(Types) = 0) => last.out.kind = "return"

C5_Witness ==
  /\ EmptyCall
  /\ name = "either"
  /\ last.args = <<R__>>
  /\ last.out.kind = "function"
  /\ last.out.fn.length = 3

\* C6: the length a partially applied function reports is the number of
\* its unfilled slots, which is the declared arity less the concrete
\* arguments accepted along its chain; a call of placeholders only, or of
\* no argument, returns a function of the receiver's length.
C6_ReportedArity ==
  /\ \A i \in 1..Len(fns) :
       /\ fns[i].length = Len(Unfilled(chain[i]))
       /\ fns[i].length = Len(Types) - NumConcrete(chain[i])
  /\ (Called /\ last.out.kind = "function") =>
       /\ last.out.fn.length = Len(Unfilled(Fill(RecvSlots, last.args)))
       /\ last.out.fn.length =
            fns[last.recv].length
              - Cardinality({k \in 1..Len(last.args) :
                               k <= Len(Unfilled(RecvSlots)) /\ last.args[k] # R__})
       /\ NumConcrete(last.args) = 0 => last.out.fn.length = fns[last.recv].length

\* either(f)(g) reports 1, and either(f)(g)(_) still does
C6_Witness ==
  /\ Called
  /\ name = "either"
  /\ last.recv > 1
  /\ RecvSlots = <<FnLength, FnLength, R__>>
  /\ fns[last.recv].length = 1
  /\ last.args = <<R__>>
  /\ last.out.kind = "function"
  /\ last.out.fn.length = 1

(***************************************************************************)
(* What the constraint of a slot asks of a value, as the documentation of  *)
(* the types states it (index.js lines 30-87), written as tables.          *)
(***************************************************************************)
Conforming ==
  {<<"Function", FnLength>>, <<"TypeRep", FnLength>>,
   <<"Either", LeftAbc>>, <<"Number", Num42>>}
    \cup {<<"Accessible", v>> : v \in Concrete \ {Null, Undefined}}

\* the classification of a value: its kind, and the type tag of a tagged value
Classification ==
  [v \in Concrete \ {Null, Undefined} |->
     CASE v = Num42 -> <<"Number">>
       [] v \in {Arr123, ArrEmpty} -> <<"Array">>
       [] v = FnLength -> <<"Function">>
       [] v = LeftAbc -> <<"Object", "Either">>]

\* two values a shared type variable accepts together
Unify(v, w) ==
  /\ {v, w} \cap {Null, Undefined} = {}
  /\ Classification[v] = Classification[w]

OrdinalWord(i) == <<"first", "second", "third">>[i]

\* the slots when the j-th argument of the call is reached
SlotsBefore(j) == Fill(RecvSlots, SubSeq(last.args, 1, j - 1))

\* the j-th argument of the call is concrete and is not accepted: it goes
\* with no slot, or the constraint of its slot does not accept it
Rejected(j) ==
  LET U == Unfilled(RecvSlots)
      arg == last.args[j]
  IN /\ arg # R__
     /\ \/ j > Len(U)
        \/ /\ j <= Len(U)
           /\ LET type == Types[U[j]] IN
              IF type \in TypeVars
              THEN LET before == SlotsBefore(j) IN
                   \E i \in 1..Len(Types) :
                     /\ Types[i] = type
                     /\ before[i] # R__
                     /\ ~Unify(before[i], arg)
              ELSE <<type, arg>> \notin Conforming

\* the index of the first rejected argument of the call; 0 when none is
FirstRejected ==
  LET RECURSIVE from(_)
      from(j) == IF j > Len(last.args) THEN 0
                 ELSE IF Rejected(j) THEN j ELSE from(j + 1)
  IN from(1)

\* the error is about the slot and the value of the j-th argument
ErrorIsAbout(err, j) ==
  LET U == Unfilled(RecvSlots)
      arg == last.args[j]
  IN IF j > Len(U) THEN err.tpl = "native" \/ err.repr = R_toString(arg)
     ELSE LET type == Types[U[j]] IN
          IF type \in TypeVars
          THEN \/ err.tpl = "native"
               \/ /\ OrdinalWord(U[j]) \in {err.ord, err.ord2}
                  /\ R_toString(arg) \in {err.repr, err.repr2}
          ELSE IF type = "Accessible"
          THEN /\ err = NullishError(name, <<U[j] - 1>>)
               /\ err.ord = OrdinalWord(U[j])
          ELSE /\ err = MismatchError(name, type, <<U[j] - 1>>, arg)
               /\ err.ord = OrdinalWord(U[j])
               /\ err.type = type
               /\ err.repr = R_toString(arg)

\* the words of the arity error: one .. ten, then numerals
NumberWord(k) ==
  CASE k = 0 -> "zero" [] k = 1 -> "one" [] k = 2 -> "two" [] k = 3 -> "three"
    [] k = 4 -> "four" [] k = 5 -> "five" [] k = 6 -> "six" [] k = 7 -> "seven"
    [] k = 8 -> "eight" [] k = 9 -> "nine" [] k = 10 -> "ten"
    [] OTHER -> ToString(k)

\* the error the tests expect of a call with too many arguments
\* (test/index.js lines 72-97)
ArityError(nm, required, received) ==
  [thrown |-> TRUE, ctor |-> "TypeError",
   tpl |-> "{quote} requires {} argument(s); received {} argument(s)",
   name |-> fmtQuote(nm), requires |-> NumberWord(required),
   received |-> NumberWord(received)]

\* C7: a call that supplies more concrete arguments than the receiver has
\* unfilled slots throws a TypeError that names the function, its declared
\* arity in words, and the number of arguments received so far in words.
C7_AsStated ==
  (Called /\ NumConcrete(last.args) > Len(Unfilled(RecvSlots))) =>
    /\ last.out.kind = "throw"
    /\ last.out.err =
         ArityError(name, Len(Types), NumConcrete(RecvSlots) + NumConcrete(last.args))

\* C8: fail-fast, left-to-right validation.  A call throws exactly when
\* one of its arguments is rejected, and the error it throws is the error
\* of the first rejected argument in argument order: it names that
\* argument's slot and value, whatever the arguments after it are.
C8_FailFast ==
  Called =>
    /\ last.out.kind = "throw" <=> \E j \in 1..Len(last.args) : Rejected(j)
    /\ last.out.kind = "throw" =>
         LET j == FirstRejected IN
         /\ ErrorIsAbout(last.out.err, j)
         /\ last.out.err =
              curried(name, Types, <<RecvSlots>>, 1,
                      SubSeq(last.args, 1, j), last.this).err

\* at(undefined, undefined): both arguments are invalid, the error is the
\* first one's (not a Number), not the second one's (null or undefined)
C8_Witness ==
  /\ Called
  /\ name = "at"
  /\ last.recv = 1
  /\ last.args = <<Undefined, Undefined>>
  /\ Rejected(1) /\ Rejected(2)
  /\ last.out.kind = "throw"
  /\ last.out.err.ord = "first"
  /\ last.out.err.type = "Number"

\* C9: no partial success.  A call one of whose arguments is rejected
\* throws and does not invoke the implementation, also when its other
\* arguments fill every remaining slot.
C9_NoPartialSuccess ==
  (Called /\ \E j \in 1..Len(last.args) : Rejected(j)) =>
    /\ last.out.kind = "throw"
    /\ last.out.invoked = 0

\* either(f, g, f): the third argument is no Either; the three arguments
\* would have filled every slot
C9_Witness ==
  /\ Called
  /\ name = "either"
  /\ last.recv = 1
  /\ last.args = <<FnLength, FnLength, FnLength>>
  /\ Rejected(3) /\ ~Rejected(1) /\ ~Rejected(2)
  /\ NumConcrete(Fill(RecvSlots, last.args)) = 3
  /\ last.out.kind = "throw"
  /\ last.out.invoked = 0

\* C10: the implementation is invoked by the calls that leave no slot
\* unfilled and by no other, once, with the slots in order, and the call
\* returns what it returns; a call that leaves a slot unfilled (and does
\* not throw) invokes nothing and returns a function.
C10_InvokedOnSaturation ==
  Called =>
    LET after == Fill(RecvSlots, last.args) IN
    /\ last.out.invoked \in {0, 1}
    /\ last.out.invoked = 1 <=> last.out.kind = "return"
    /\ last.out.invoked = 1 => running
    /\ last.out.kind = "return" =>
         /\ Unfilled(after) = <<>>
         /\ last.out.value = Apply(name, last.this, after)
    /\ (last.out.kind # "throw" /\ Unfilled(after) # <<>>) =>
         /\ last.out.kind = "function"
         /\ last.out.fn.callable
         /\ last.out.invoked = 0

\* K(42)(null) invokes the implementation of K with (42, null)
C10_Witness ==
  /\ Called
  /\ name = "K"
  /\ last.recv > 1
  /\ RecvSlots = <<Num42, R__>>
  /\ last.args = <<Null>>
  /\ last.out.kind = "return"
  /\ last.out.invoked = 1
  /\ last.out.value.args = <<Num42, Null>>

\* every value the slots hold is one the constraint of its slot accepts
Validated(values) ==
  \A p \in 1..Len(values) :
    values[p] # R__ =>
      IF Types[p] \in TypeVars
      THEN \A q \in 1..Len(values) :
             (q # p /\ Types[q] = Types[p] /\ values[q] # R__)
               => Unify(values[p], values[q])
      ELSE <<Types[p], values[p]>> \in Conforming

\* C11: eager validation.  A call one of whose arguments is rejected
\* throws in that very call, also when the call would leave slots
\* unfilled; so no function, kept or just returned, ever holds a value its
\* slot's constraint does not accept.
C11_EagerValidation ==
  /\ \A i \in 1..Len(fns) : Validated(heap[fns[i].vals])
  /\ Called =>
       /\ ((\E j \in 1..Len(last.args) : Rejected(j))
             /\ Unfilled(Fill(RecvSlots, last.args)) # <<>>)
            => last.out.kind = "throw"
       /\ last.out.kind = "function" => Validated(last.out.values)

\* either(R.length)(Left('abc')): the second argument is checked, and
\* rejected, while the third is still to come
C11_Witness ==
  /\ Called
  /\ name = "either"
  /\ RecvSlots = <<FnLength, R__, R__>>
  /\ last.args = <<LeftAbc>>
  /\ Unfilled(Fill(RecvSlots, last.args)) = <<3>>
  /\ last.out.kind = "throw"
  /\ last.out.err = MismatchError("either", "Function", <<1>>, LeftAbc)

\* C12: the ordinal of a type error is the declared position of the slot
\* the rejected argument was paired with, whatever the index of the
\* argument in its call.
C12_DeclaredOrdinal ==
  (/\ Called
   /\ last.out.kind = "throw"
   /\ FirstRejected \in 1..Len(Unfilled(RecvSlots))) =>
    LET p == Unfilled(RecvSlots)[FirstRejected]
        err == last.out.err
    IN IF Types[p] \in TypeVars
       THEN err.tpl # "native" => OrdinalWord(p) \in {err.ord, err.ord2}
       ELSE err.ord = OrdinalWord(p)

\* either(R.length, R.length)(R.length): the only argument of the call is
\* reported as the third
C12_Witness ==
  /\ Called
  /\ name = "either"
  /\ RecvSlots = <<FnLength, FnLength, R__>>
  /\ last.args = <<FnLength>>
  /\ FirstRejected = 1
  /\ last.out.kind = "throw"
  /\ last.out.err.ord = "third"

\* the classification of any value: null and undefined are classes of
\* their own
ClassOf(v) == IF v \in {Null, Undefined} THEN <<v>> ELSE Classification[v]

\* the call completes the two slots of a function whose two constraints
\* are type variables, and supplies at least one of the two values
CompletesTypeVarPair ==
  /\ Called
  /\ Len(Types) = 2
  /\ {Types[1], Types[2]} \subseteq TypeVars
  /\ Surplus = {}
  /\ NumConcrete(last.args) > 0
  /\ NumConcrete(Fill(RecvSlots, last.args)) = 2

\* C13: type-variable unification.  Two slots with the same type variable
\* accept two values of the same classification and reject two values of
\* different classification with the TypeError that lists both; two slots
\* with different type variables accept any two values.
C13_AsStated ==
  CompletesTypeVarPair =>
    LET x == Fill(RecvSlots, last.args)[1]
        y == Fill(RecvSlots, last.args)[2]
    IN IF Types[1] = Types[2] /\ ClassOf(x) # ClassOf(y)
       THEN /\ last.out.kind = "throw"
            /\ last.out.err = SameTypeError(name, 0, 1, x, y)
       ELSE /\ last.out.kind = "return"
            /\ last.out.value = Apply(name, last.this, <<x, y>>)

\* C14: the outcome for two values of one type variable does not depend
\* on the order in which the two slots were filled: the call that
\* completes the pair throws or returns as the direct call with both
\* values does, with the same error; the message names the first position
\* and its value, then the second; and the pair taken the other way round
\* is accepted or rejected alike.
C14_OrderIndependent ==
  (CompletesTypeVarPair /\ Types[1] = Types[2]) =>
    LET x == Fill(RecvSlots, last.args)[1]
        y == Fill(RecvSlots, last.args)[2]
        direct == FullCall(<<x, y>>, last.this)
        swapped == FullCall(<<y, x>>, last.this)
    IN /\ last.out.kind = direct.kind
       /\ last.out.kind = "throw" =>
            /\ last.out.err = direct.err
            /\ last.out.err.tpl # "native" =>
                 /\ last.out.err.ord = "first"
                 /\ last.out.err.repr = R_toString(x)
                 /\ last.out.err.ord2 = "second"
                 /\ last.out.err.repr2 = R_toString(y)
       /\ direct.kind = swapped.kind

\* and(R.__, null)([1, 2, 3]): the second slot was filled first; the
\* message is that of and([1, 2, 3], null)
C14_Witness ==
  /\ Called
  /\ name = "and"
  /\ RecvSlots = <<R__, Null>>
  /\ last.args = <<Arr123>>
  /\ last.out.kind = "throw"
  /\ last.out.err = SameTypeError("and", 0, 1, Arr123, Null)
  /\ last.out.err = FullCall(<<Arr123, Null>>, last.this).err

\* the call cut after its j-th argument
Prefix(j) ==
  curried(name, Types, <<RecvSlots>>, 1, SubSeq(last.args, 1, j), last.this)

\* the j-th argument of the call is a concrete value, has a slot, and the
\* arguments before it did not throw
Reached(j) ==
  /\ last.args[j] # R__
  /\ j <= Len(Unfilled(RecvSlots))
  /\ Prefix(j - 1).kind # "throw"

SlotOf(j) == Unfilled(RecvSlots)[j]

\* C15: a slot constrained to Accessible accepts every concrete value
\* except null and undefined; for these two the call throws the TypeError
\* that says the argument at the slot's ordinal position of the named
\* function cannot be null or undefined, and the implementation is not
\* invoked.
C15_Accessible ==
  Called =>
    \A j \in 1..Len(last.args) :
      (Reached(j) /\ Types[SlotOf(j)] = "Accessible") =>
        IF last.args[j] \in {Null, Undefined}
        THEN /\ last.out.kind = "throw"
             /\ last.out.invoked = 0
             /\ last.out.err =
                  [thrown |-> TRUE, ctor |-> "TypeError",
                   tpl |-> "The {ord} argument to {quote} cannot be null or undefined",
                   name |-> <<"U+2018", name, "U+2019">>,
                   ord |-> OrdinalWord(SlotOf(j))]
        ELSE /\ Prefix(j).kind # "throw"
             /\ (\A k \in (j + 1)..Len(last.args) : last.args[k] = R__)
                  => /\ last.out.kind # "throw"
                     /\ SlotsAfter[SlotOf(j)] = last.args[j]

\* at(42, undefined)
C15_Witness ==
  /\ Called
  /\ name = "at"
  /\ last.args = <<Num42, Undefined>>
  /\ Reached(2)
  /\ last.out.kind = "throw"
  /\ last.out.err.ord = "second"
  /\ last.out.invoked = 0

\* the values that are functions (typeof x === 'function'), whatever the
\* execution context that made them
Functions == {FnLength, JsNumber, JsObject, JsString, JsArray, JsFunction, VmArray}

\* C16: a slot constrained to TypeRep accepts a value exactly when the
\* value is a function; any other value, null and undefined included,
\* throws the type-membership TypeError that names the type TypeRep.
C16_AsStated ==
  Called =>
    \A j \in 1..Len(last.args) :
      (Reached(j) /\ Types[SlotOf(j)] = "TypeRep") =>
        IF last.args[j] \in Functions
        THEN Prefix(j).kind # "throw"
        ELSE /\ last.out.kind = "throw"
             /\ last.out.err.tpl =
                  "{quote} requires a value of type {type} as its {ord} argument; received {repr}"
             /\ last.out.err.type = "TypeRep"
             /\ last.out.err.ord = OrdinalWord(SlotOf(j))

\* the pairs <<T, x>> in which the prototype of the constructor T is in
\* the prototype chain of x, promoted when a primitive: 42 is a Number and
\* an Object; every function of this execution context is a Function and
\* an Object; the values of another execution context inherit from none
\* of this context's prototypes
InChainOf ==
  {<<JsNumber, Num42>>, <<JsObject, Num42>>,
   <<JsArray, Arr123>>, <<JsObject, Arr123>>,
   <<JsArray, ArrEmpty>>, <<JsObject, ArrEmpty>>,
   <<JsObject, LeftAbc>>}
    \cup {<<T, f>> : T \in {JsFunction, JsObject}, f \in Functions \ {VmArray}}

C18_AsStated ==
  (Called /\ name = "is"
     /\ last.args \in {<<JsArray, VmArr123>>, <<VmArray, Arr123>>}) =>
    /\ last.out.kind = "return"
    /\ isResult(last.out.value) = "true"

\* C19: on saturation the implementation is invoked with the filled
\* values in declared slot order and with the caller's this, so that a
\* method that reads this.value works however its arguments are supplied.
C19_AsStated ==
  (Called /\ last.out.kind = "return") =>
    /\ last.out.value.args = Fill(RecvSlots, last.args)
    /\ last.out.value.this = last.this
    /\ ~reduceResult(last.out.value).thrown

\* C19 as amended: the this the implementation runs with is the this of
\* the call that fills the last slot; the method works exactly when that
\* call has the object as its receiver.
C19_ThisOfSaturatingCall ==
  (Called /\ last.out.kind = "return") =>
    /\ last.out.value.args = Fill(RecvSlots, last.args)
    /\ last.out.value.this = last.this
    /\ reduceResult(last.out.value).thrown <=> last.this = Undefined
    /\ last.this = "obj" =>
         reduceResult(last.out.value) =
           [thrown |-> FALSE, fn |-> Fill(RecvSlots, last.args)[1],
            args |-> <<Fill(RecvSlots, last.args)[2], Num42>>]

\* g = m.reduce(R.__, 42), then g.call(m, R.length): the slots reach the
\* implementation in declared order, with m as this
C19_Witness ==
  /\ Called
  /\ name = "Just#reduce"
  /\ last.recv > 1
  /\ RecvSlots = <<R__, Num42>>
  /\ last.args = <<FnLength>>
  /\ last.this = "obj"
  /\ last.out.kind = "return"
  /\ last.out.value.args = <<FnLength, Num42>>
  /\ ~reduceResult(last.out.value).thrown

Position(i, len) == IF i.minus THEN len ELSE IF i.v < 0 THEN len + i.v ELSE i.v

\* the elements of xs from position p (inclusive) to position q (exclusive)
Range(xs, p, q) == Tabulate([k \in 1..(q - p) |-> xs[p + k]], q - p)

\* C21: slice(start, end, xs) returns Just the elements from the start
\* position to the end position exactly when |start| <= length,
\* |end| <= length and start position <= end position, and Nothing in
\* every other case; the range it returns is never truncated.
C21_Slice ==
  (Called /\ name = "slice") =>
    LET start == last.args[1]
        end == last.args[2]
        xs == last.args[3]
        len == Len(xs)
        p == Position(start, len)
        q == Position(end, len)
    IN IF Abs(start.v) <= len /\ Abs(end.v) <= len /\ p <= q
       THEN /\ last.out.value = Just(Range(xs, p, q))
            /\ Len(last.out.value.value) = q - p
       ELSE last.out.value = Nothing

\* slice(-2, -0, ["1", "2", "3"]) is Just(["2", "3"])
C21_Witness ==
  /\ Called
  /\ name = "slice"
  /\ last.args = <<Num(-2), NegZero, <<"1", "2", "3">> >>
  /\ last.out.value = Just(<<"2", "3">>)

\* what C22 says at(n, xs) returns
AtAsStated(n, xs) ==
  LET len == Len(xs) IN
  IF ~n.minus /\ 0 <= n.v /\ n.v < len THEN Just(xs[n.v + 1])
  ELSE IF 0 - len <= n.v /\ n.v < 0 THEN Just(xs[len + n.v + 1])
  ELSE Nothing

\* C22, as stated: at(n, xs) returns Just the element at index n when
\* 0 <= n < length, Just the element at length + n when -length <= n < 0,
\* and Nothing for every other index, -0 included, for arrays of every
\* length.
C22_AsStated ==
  (Called /\ name = "at") =>
    last.out.value = AtAsStated(last.args[1], last.args[2])

\* C23: take, takeLast, drop and dropLast applied to n and an array of
\* length len return Nothing exactly when n is negative, is -0 or is
\* greater than len; otherwise they return Just the first n elements, the
\* last n elements, all but the first n and all but the last n.
C23_TakeDrop ==
  (Called /\ name \in {"take", "takeLast", "drop", "dropLast"}) =>
    LET n == last.args[1]
        xs == last.args[2]
        len == Len(xs)
    IN IF n.v < 0 \/ n.minus \/ n.v > len
       THEN last.out.value = Nothing
       ELSE last.out.value =
              Just(CASE name = "take" -> Range(xs, 0, n.v)
                     [] name = "takeLast" -> Range(xs, len - n.v, len)
                     [] name = "drop" -> Range(xs, n.v, len)
                     [] name = "dropLast" -> Range(xs, 0, len - n.v))

\* take(-0, ["1", "2"]) is Nothing, although take(0, ...) is Just([])
C23_Witness ==
  /\ Called
  /\ name = "take"
  /\ last.args = <<NegZero, <<"1", "2">> >>
  /\ last.out.value = Nothing

\* the kinds of values C24 names
NonEmptyArray(x) == x = Arr123

HasToBoolean(x) == x \in {Just42, NothingV, LeftAbc}

\* a value that is "true": a non-empty array, the Boolean true, or a value
\* whose toBoolean method returns true (a Just)
IsTrue(x) == NonEmptyArray(x) \/ x = True \/ x = Just42

\* a value of the kinds and and or are defined for
OfBooleanKind(x) == x \in {Arr123, ArrEmpty, True, False} \/ HasToBoolean(x)

\* two values of the same type: the same kind and the same type tag
SameType(x, y) == R_type(x) = R_type(y) /\ TypeProp(x) = TypeProp(y)

\* what the call gave its caller: the error it threw, or the result of the
\* implementation it applied
ControlOutcome ==
  IF last.out.kind = "throw" THEN last.out.err
  ELSE IF name = "and" THEN andResult(last.out.value)
  ELSE orResult(last.out.value)

\* C24, as stated: and(x, y) returns y when x is "true" and x otherwise,
\* or(x, y) returns x when x is "true" and y otherwise, and a value of any
\* other kind makes the call throw a TypeError saying that the value does
\* not have a toBoolean method.
C24_AsStated ==
  (/\ Called
   /\ last.out.kind # "function"
   /\ Len(last.args) = 2
   /\ \A i \in 1..2 : last.args[i] # R__
   /\ SameType(last.args[1], last.args[2])) =>
    LET x == last.args[1]
        y == last.args[2]
    IN IF OfBooleanKind(x)
       THEN /\ ~ControlOutcome.thrown
            /\ ControlOutcome.value =
                 IF name = "and" THEN (IF IsTrue(x) THEN y ELSE x)
                 ELSE (IF IsTrue(x) THEN x ELSE y)
       ELSE ControlOutcome = MethodMissingError(x, "a", "toBoolean")

\* the slots of an array that hold a placeholder
Open(values) == {s \in 1..Len(values) : values[s] = R__}

\* C25: filled slots are never overwritten.  A live function's array keeps
\* every value its chain of calls filled in; a call that does not throw
\* ends with every filled slot of its receiver unchanged and with no slot
\* unfilled that the receiver had filled; and the call's concrete arguments
\* land in as many distinct slots that were unfilled, the j-th argument in
\* the j-th of them.
C25_FilledSlotsStay ==
  /\ \A i \in 1..Len(fns) : \A s \in 1..Len(chain[i]) :
       chain[i][s] # R__ => heap[fns[i].vals][s] = chain[i][s]
  /\ (Called /\ last.out.kind # "throw") =>
       LET U == Unfilled(RecvSlots)
           J == {j \in 1..Len(last.args) : last.args[j] # R__}
           after == SlotsAfter
       IN /\ \A s \in 1..Len(RecvSlots) :
               RecvSlots[s] # R__ => after[s] = RecvSlots[s]
          /\ Open(after) \subseteq Open(RecvSlots)
          /\ \A j \in J : j <= Len(U) /\ after[U[j]] = last.args[j]
          /\ Cardinality(Open(RecvSlots) \ Open(after)) = Cardinality(J)

\* g = either(R.__, f) is kept; g(R.__, left) fills the third slot and
\* leaves f in the second
C25_Witness ==
  /\ Called
  /\ name = "either"
  /\ last.recv > 1
  /\ RecvSlots = <<R__, FnLength, R__>>
  /\ last.args = <<R__, LeftAbc>>
  /\ last.out.kind = "function"
  /\ last.out.values = <<R__, FnLength, LeftAbc>>

\* a call of fns[r] with args in the present heap, as its caller sees it
CallNow(r, args) ==
  LET res == curried(name, Types, heap, fns[r].vals, args, Undefined) IN
  IF res.kind = "throw" THEN <<"throw", res.err>>
  ELSE IF res.kind = "return" THEN <<"return", res.value>>
  ELSE <<"function", res.values, res.fn.length>>

\* what a call with valid arguments gives on a function with these slots
\* on which no call has failed
Accepted(values, args) ==
  LET after == Fill(values, args) IN
  IF Open(after) = {} THEN <<"return", Apply(name, Undefined, after)>>
  ELSE <<"function", after, Cardinality(Open(after))>>

\* C26: a call that throws leaves its receiver unchanged.  After it the
\* receiver's array holds what it held (the same unfilled slots, the same
\* filled values), the receiver reports the same arity, and when valid
\* arguments came before the rejected one, none of them was kept: supplied
\* again in a call of their own, they have the outcome they have on a
\* function with the receiver's slots on which no call has failed.
C26_ThrowLeavesReceiver ==
  (Called /\ last.out.kind = "throw") =>
    LET recv == fns[last.recv]
        j == FirstRejected
        later == SubSeq(last.args, 1, j - 1)
    IN /\ heap[recv.vals] = RecvSlots
       /\ recv.length = Cardinality(Open(RecvSlots))
       /\ recv.callable
       /\ j > 0
       /\ j > 1 => CallNow(last.recv, later) = Accepted(RecvSlots, later)

\* either(f, left): the first argument is valid, the second is not; the
\* receiver still awaits its three arguments, and either(f) on it returns a
\* function of the two that remain
C26_Witness ==
  /\ Called
  /\ name = "either"
  /\ last.recv = 1
  /\ last.args = <<FnLength, LeftAbc>>
  /\ ~Rejected(1) /\ Rejected(2)
  /\ last.out.kind = "throw"
  /\ heap[fns[1].vals] = <<R__, R__, R__>>
  /\ CallNow(1, <<FnLength>>) = <<"function", <<FnLength, R__, R__>>, 2>>

\* the call without its arguments past the receiver's unfilled slots
Trimmed == SubSeq(last.args, 1, Min(Len(last.args), Cardinality(Open(RecvSlots))))

\* C27: a call with more arguments than its receiver has unfilled slots
\* throws a TypeError and does not invoke the implementation whenever one
\* of the surplus arguments is a concrete value; when they are all
\* placeholders they are skipped: the call has the outcome of the call
\* without them.
C27_SurplusArguments ==
  (Called /\ Surplus # {}) =>
    IF \E k \in Surplus : last.args[k] # R__
    THEN /\ last.out.kind = "throw"
         /\ last.out.err.ctor = "TypeError"
         /\ last.out.invoked = 0
    ELSE LET alone == curried(name, Types, <<RecvSlots>>, 1, Trimmed, last.this) IN
         /\ last.out.kind = alone.kind
         /\ last.out.kind = "throw" => last.out.err = alone.err
         /\ last.out.kind = "return" => last.out.value = alone.value
         /\ last.out.kind = "function" => last.out.values = alone.values

\* K(42, null, R.__) reaches the implementation with (42, null)
C27_Witness ==
  /\ Called
  /\ name = "K"
  /\ last.recv = 1
  /\ last.args = <<Num42, Null, R__>>
  /\ Surplus = {3}
  /\ last.out.kind = "return"
  /\ last.out.invoked = 1
  /\ last.out.value.args = <<Num42, Null>>

\* the call supplies a value for a slot of a repeated type variable and
\* leaves both slots, the receiver's and its own, holding null, or both
\* holding undefined
CompletesNullPair ==
  /\ Called
  /\ Len(Types) = 2
  /\ Types[1] = Types[2]
  /\ Types[1] \in TypeVars
  /\ \E j \in 1..Min(Len(last.args), Len(Unfilled(RecvSlots))) : last.args[j] # R__
  /\ Fill(RecvSlots, last.args) \in {<<Null, Null>>, <<Undefined, Undefined>>}

\* C28: a call that completes a pair of nulls, or of undefineds, for a
\* repeated type variable throws the unformatted TypeError of reading the
\* type property and does not invoke the implementation; no call returns
\* from an implementation given two nulls or two undefineds.
C28_NullPairThrows ==
  /\ CompletesNullPair =>
       /\ last.out.kind = "throw"
       /\ last.out.err = NativeTypeError("Cannot read property 'type'")
       /\ last.out.invoked = 0
  /\ (Called /\ last.out.kind = "return" /\ Len(Types) = 2 /\ Types[1] = Types[2]) =>
       last.out.value.args \notin {<<Null, Null>>, <<Undefined, Undefined>>}

\* g = or(R.__, undefined) is kept; g(undefined) throws
C28_Witness ==
  /\ CompletesNullPair
  /\ name = "or"
  /\ last.recv > 1
  /\ RecvSlots = <<R__, Undefined>>
  /\ last.args = <<Undefined>>
  /\ last.out.kind = "throw"
  /\ last.out.err.tpl = "native"

\* C29: def and partial application yield a callable exactly when the
\* number of unfilled slots is between 0 and 3.  Every function a chain of
\* calls yields has at most three unfilled slots and is callable; what def
\* returns for four or more constraints is not callable (it is undefined),
\* so that no call on it ever reaches the engine.
C29_ArityUpToThree ==
  /\ \A i \in 1..Len(fns) :
       /\ fns[i].callable <=> Cardinality(Open(heap[fns[i].vals])) \in 0..3
       /\ fns[i].callable <=> Len(Types) <= 3
  /\ (Called /\ last.out.kind = "function") =>
       /\ last.out.fn.callable
       /\ Cardinality(Open(last.out.values)) \in 0..3
  /\ (Called /\ Len(Types) >= 4) =>
       /\ last.out.kind = "throw"
       /\ last.out.err = NativeTypeError("undefined is not a function")
       /\ last.out.invoked = 0

\* def with four constraints: calling what it returned throws
C29_Witness ==
  /\ Called
  /\ name = "quaternary"
  /\ Len(Types) = 4
  /\ ~fns[1].callable
  /\ last.args = <<Num42>>
  /\ last.out.kind = "throw"

\* the same call made with another this
WithThis(this) ==
  curried(name, Types, heap, fns[last.recv].vals, last.args, this)

\* C30: the this the implementation is given is the this of the call that
\* fills the last slot.  A function an earlier call returned carries no
\* this; applied with another this, the same arguments reach the
\* implementation with that one; and applied as a plain function, a
\* function that descends from m.reduce(...) runs the implementation with
\* a this that is not m, whose value it cannot read.
C30_ThisNotRetained ==
  /\ \A i \in 1..Len(fns) : DOMAIN fns[i] = {"vals", "callable", "length"}
  /\ (Called /\ last.recv > 1 /\ last.out.kind = "return") =>
       /\ last.out.value.this = last.this
       /\ \A this \in ThisVals :
            /\ WithThis(this).kind = "return"
            /\ WithThis(this).value.this = this
            /\ WithThis(this).value.args = last.out.value.args
       /\ last.this = Undefined =>
            /\ last.out.value.this # "obj"
            /\ reduceResult(last.out.value) =
                 NativeTypeError("Cannot read property 'value'")

\* g = m.reduce(f) is kept; g(42), a plain call, runs the implementation
\* with this undefined
C30_Witness ==
  /\ Called
  /\ name = "Just#reduce"
  /\ Len(fns) = 2
  /\ last.recv = 2
  /\ RecvSlots = <<FnLength, R__>>
  /\ last.args = <<Num42>>
  /\ last.this = Undefined
  /\ last.out.kind = "return"
  /\ last.out.value.this = Undefined
  /\ reduceResult(last.out.value).thrown

====
